---- MODULE Spec2Model ----
(***************************************************************************)
(* A model of agentpy's output module (agentpy/output.py): the DataDict    *)
(* container, its persistence (save / load with auto-incremented           *)
(* experiment directories) and its re-assembly into one table (arrange,    *)
(* _combine_vars, _combine_pars).                                          *)
(*                                                                         *)
(* Names that pass through the file system (experiment names, directory    *)
(* names, container keys, file names) are sequences of one-character       *)
(* strings, so that Python's `in`, split, replace and slicing are          *)
(* computed on them as the code computes them.                             *)
(***************************************************************************)
EXTENDS Integers, Sequences, FiniteSets, TLC

VARIABLES
    pathExists,   \* does the output directory `path` exist
    dirs,         \* names of the sub-directories of `path`
    res,          \* what the last save / load call did
    nops,         \* number of calls made so far
    dirfiles,     \* the files of the experiment directory being loaded
    pending,      \* the files of that directory load has not read yet
    cont,         \* the container load is filling
    lstat,        \* "loading", or the error load raised
    dd0,          \* the container as it was built
    dd,           \* the container now
    aout          \* the last call on the container and what it returned

fsVars == <<pathExists, dirs, res, nops>>

ldVars == <<dirfiles, pending, cont, lstat>>

arVars == <<dd0, dd, aout>>

vars == <<pathExists, dirs, res, nops, dirfiles, pending, cont, lstat, dd0, dd, aout>>

(***************************************************************************)
(* Bounds                                                                  *)
(***************************************************************************)
\* number of save / load calls in one behaviour
MaxOps == 3
\* explicit exp_id values a caller passes: 0..MaxExpId and BigExpId, after
\* which the generated ids have two digits
MaxExpId == 2
BigExpId == 9

(***************************************************************************)
(* Python string primitives                                                *)
(***************************************************************************)
\* Python's None: as a status, as a name, as an exp_id
None == "None"

NoneName == <<"None">>

NoneId == 0 - 1

Digits == <<"0", "1", "2", "3", "4", "5", "6", "7", "8", "9">>

DigitVal(c) == CHOOSE d \in 0..9 : Digits[d + 1] = c

IsDigit(c) == \E d \in 0..9 : Digits[d + 1] = c

\* f'{n}' for a non-negative integer
RECURSIVE FmtInt(_)
FmtInt(n) == IF n < 10 THEN <<Digits[n + 1]>>
             ELSE FmtInt(n \div 10) \o <<Digits[(n % 10) + 1]>>

\* int(s) succeeds on a non-empty string of digits
IsIntStr(s) == Len(s) > 0 /\ \A i \in 1..Len(s) : IsDigit(s[i])

RECURSIVE ParseInt(_)
ParseInt(s) == IF Len(s) = 0 THEN 0
               ELSE 10 * ParseInt(SubSeq(s, 1, Len(s) - 1)) + DigitVal(s[Len(s)])

\* sub in s
Contains(sub, s) ==
    \E i \in 1..(Len(s) - Len(sub) + 1) : SubSeq(s, i, i + Len(sub) - 1) = sub

\* s.startswith(sub)
StartsWith(sub, s) == Len(s) >= Len(sub) /\ SubSeq(s, 1, Len(sub)) = sub

\* s.split(sep)[-1] for a one-character separator
LastSegment(s, sep) ==
    LET seps == {i \in 1..Len(s) : s[i] = sep}
        last == IF seps = {} THEN 0 ELSE CHOOSE i \in seps : \A j \in seps : j <= i
    IN SubSeq(s, last + 1, Len(s))

\* s.replace(" ", "_")
ReplaceSpaces(s) == [i \in 1..Len(s) |-> IF s[i] = " " THEN "_" ELSE s[i]]

SetMax(S) == CHOOSE x \in S : \A y \in S : y <= x

(***************************************************************************)
(* Experiment directories                                                  *)
(***************************************************************************)
\* the experiment names callers use; the second holds the first as a
\* substring once its space is replaced
ExpNames == {<<"a", "b">>, <<"a", "b", " ", "c">>}

\* self.log['name'], used by save when exp_name is None
LogName == <<"a", "b">>

\* f'{exp_name}_{exp_id}'
DirName(name, id) == name \o <<"_">> \o FmtInt(id)

\* _last_exp_id counting the matching directories instead of taking the
\* highest id
LastExpIdCount(name, listing) ==
    LET exp_dirs == {s \in listing : Contains(name, s)}
    IN IF exp_dirs = {} THEN [err |-> None, id |-> 0]
       ELSE IF \E s \in exp_dirs : ~IsIntStr(LastSegment(s, "_"))
            THEN [err |-> "ValueError", id |-> 0]
            ELSE [err |-> None, id |-> Cardinality(exp_dirs)]

\* _last_exp_id: the highest trailing integer among the directory names that
\* contain `name`; 0 when there is none; ValueError when int() fails
LastExpId(name, listing) ==
    LET exp_dirs == {s \in listing : Contains(name, s)}
    IN IF exp_dirs = {} THEN [err |-> None, id |-> 0]
       ELSE IF \E s \in exp_dirs : ~IsIntStr(LastSegment(s, "_"))
            THEN [err |-> "ValueError", id |-> 0]
            ELSE [err |-> None,
                  id |-> SetMax({ParseInt(LastSegment(s, "_")) : s \in exp_dirs})]

NoRes == [op |-> "none", name |-> <<>>, given |-> NoneId, status |-> "none",
          target |-> <<>>, before |-> {}]

\* DataDict.save(exp_name, exp_id, path): the directory it creates
Save(exp_name, exp_id) ==
    /\ nops < MaxOps
    /\ nops' = nops + 1
    /\ pathExists' = TRUE
    /\ UNCHANGED <<ldVars, arVars>>
    /\ LET name == ReplaceSpaces(IF exp_name = NoneName THEN LogName ELSE exp_name)
           last == LastExpId(name, dirs)
           id == IF exp_id = NoneId THEN last.id + 1 ELSE exp_id
           target == DirName(name, id)
           status == IF exp_id = NoneId /\ last.err # None THEN last.err
                     ELSE IF target \in dirs THEN "FileExistsError"
                     ELSE "ok"
       IN /\ dirs' = IF status = "ok" THEN dirs \cup {target} ELSE dirs
          /\ res' = [op |-> "save", name |-> name, given |-> exp_id,
                     status |-> status,
                     target |-> IF status = "ok" THEN target ELSE <<>>,
                     before |-> dirs]

\* DataDict._load(exp_name, exp_id, path): the directory it reads
Load(exp_name, exp_id) ==
    /\ nops < MaxOps
    /\ nops' = nops + 1
    /\ UNCHANGED <<pathExists, dirs>>
    /\ UNCHANGED <<ldVars, arVars>>
    /\ IF exp_name = NoneName
       THEN res' = [op |-> "load", name |-> <<>>, given |-> exp_id,
                    status |-> "AttributeError", target |-> <<>>,
                    before |-> dirs]
       ELSE LET name == ReplaceSpaces(exp_name)
                omitted == exp_id = NoneId \/ exp_id = 0
                last == LastExpId(name, dirs)
                id == IF omitted THEN last.id ELSE exp_id
                target == DirName(name, id)
                status ==
                    IF omitted /\ ~pathExists THEN "FileNotFoundError"
                    ELSE IF omitted /\ last.err # None THEN last.err
                    ELSE IF omitted /\ last.id = 0 THEN "AgentpyError"
                    ELSE IF target \notin dirs THEN "FileNotFoundError"
                    ELSE "ok"
            IN res' = [op |-> "load", name |-> name, given |-> exp_id,
                       status |-> status,
                       target |-> IF status = "ok" THEN target ELSE <<>>,
                       before |-> dirs]

FsIdle ==
    /\ pathExists = FALSE
    /\ dirs = {}
    /\ res = NoRes
    /\ nops = 0

LdIdle ==
    /\ dirfiles = {}
    /\ pending = {}
    /\ cont = <<>>
    /\ lstat = "idle"

ArIdle ==
    /\ dd0 = <<>>
    /\ dd = <<>>
    /\ aout = [op |-> "none"]

Init == FsIdle /\ LdIdle /\ ArIdle

ExpIds == (NoneId..MaxExpId) \cup {BigExpId}

Next ==
    \/ \E n \in ExpNames \cup {NoneName}, i \in ExpIds : Save(n, i)
    \/ \E n \in ExpNames \cup {NoneName}, i \in ExpIds : Load(n, i)

Spec == Init /\ [][Next]_vars

(***************************************************************************)
(* Properties of the experiment directories                                *)
(***************************************************************************)
\* s is a directory of experiment `name`: exactly name, "_" and an integer
IsDirOf(name, s) ==
    /\ StartsWith(name \o <<"_">>, s)
    /\ IsIntStr(SubSeq(s, Len(name) + 2, Len(s)))

OwnIds(name, listing) ==
    {ParseInt(SubSeq(s, Len(name) + 2, Len(s))) : s \in {d \in listing : IsDirOf(name, d)}}

HighestOwnId(name, listing) ==
    IF OwnIds(name, listing) = {} THEN 0 ELSE SetMax(OwnIds(name, listing))

MatchingIds(name, listing) ==
    {ParseInt(LastSegment(s, "_")) : s \in {d \in listing : Contains(name, d)}}

HighestMatchingId(name, listing) ==
    IF MatchingIds(name, listing) = {} THEN 0 ELSE SetMax(MatchingIds(name, listing))

AutoSave == res.op = "save" /\ res.given = NoneId

\* C1 as stated: every save without an explicit exp_id creates the directory
\* {exp_name}_{id} with id one more than the highest id among the directories
\* of that experiment name, and that directory did not exist before.
C1_Original ==
    AutoSave =>
        /\ res.status = "ok"
        /\ res.target = DirName(res.name, HighestOwnId(res.name, res.before) + 1)
        /\ res.target \notin res.before
        /\ dirs = res.before \cup {res.target}

\* C1 amended: every save without an explicit exp_id creates the directory
\* {exp_name}_{id} with id one more than the highest trailing integer among
\* the existing directories whose name contains exp_name as a substring
\* (0 when there is none), and that directory did not exist before.
C1_Amended ==
    AutoSave =>
        /\ res.status = "ok"
        /\ res.target = DirName(res.name, HighestMatchingId(res.name, res.before) + 1)
        /\ res.target \notin res.before
        /\ dirs = res.before \cup {res.target}

\* a save without exp_id made while another experiment's directory, whose
\* name contains this experiment's name, holds a higher id than its own
C1_Witness ==
    /\ AutoSave
    /\ res.status = "ok"
    /\ OwnIds(res.name, res.before) # {}
    /\ HighestMatchingId(res.name, res.before) > HighestOwnId(res.name, res.before)

\* C7 as stated: load without exp_id reads the directory with the highest
\* existing id of exp_name, and fails with the domain error (AgentpyError)
\* exactly when no directory of exp_name exists; stated here for a path that
\* exists and holds no other experiment's directory with exp_name in its name.
C7_Claim ==
    (res.op = "load" /\ res.given = NoneId /\ res.status # "AttributeError"
        /\ pathExists
        /\ \A s \in res.before : Contains(res.name, s) => IsDirOf(res.name, s)) =>
        /\ res.status = "AgentpyError" <=> OwnIds(res.name, res.before) = {}
        /\ OwnIds(res.name, res.before) # {} =>
               /\ res.status = "ok"
               /\ res.target = DirName(res.name, HighestOwnId(res.name, res.before))

(***************************************************************************)
(* Values, tables and containers                                           *)
(*                                                                         *)
(* A cell value is an integer, a string (a sequence of characters), NaN, a *)
(* tuple or a list.  A table (pandas.DataFrame) has named index levels     *)
(* (None for an unnamed level), named columns and rows; a row holds its    *)
(* index values `i` and its column values `c`.  A dict and a DataDict are  *)
(* ordered sequences of entries [k, v].                                    *)
(***************************************************************************)
IntV(n) == [t |-> "int", n |-> n]

StrV(str) == [t |-> "str", s |-> str]

NaN == [t |-> "nan"]

TupleV(items) == [t |-> "tuple", items |-> items]

ListV(items) == [t |-> "list", items |-> items]

NoneV == [tag |-> "none"]

TableV(index, columns, rows) ==
    [tag |-> "table", index |-> index, columns |-> columns, rows |-> rows]

DictV(entries) == [tag |-> "dict", entries |-> entries]

DataDictV(entries) == [tag |-> "dd", entries |-> entries]

ErrorV(what) == [tag |-> "error", what |-> what]

InSeq(x, seq) == \E k \in 1..Len(seq) : seq[k] = x

SeqToSet(seq) == {seq[k] : k \in 1..Len(seq)}

\* the first position of x in seq
PosOf(x, seq) == CHOOSE k \in 1..Len(seq) :
                    seq[k] = x /\ \A j \in 1..(k - 1) : seq[j] # x

HasDups(seq) == \E j, k \in 1..Len(seq) : j < k /\ seq[j] = seq[k]

\* key in d
HasKey(d, key) == \E k \in 1..Len(d) : d[k].k = key

\* d[key]
GetKey(d, key) == d[CHOOSE k \in 1..Len(d) : d[k].k = key].v

\* d[key] = v
SetKey(d, key, v) ==
    IF HasKey(d, key)
    THEN [k \in 1..Len(d) |-> IF d[k].k = key THEN [k |-> key, v |-> v] ELSE d[k]]
    ELSE Append(d, [k |-> key, v |-> v])

Keys(d) == {d[k].k : k \in 1..Len(d)}

\* the index of a table without one: RangeIndex 0..n-1, unnamed
RangeRows(rows) == [k \in 1..Len(rows) |-> [i |-> <<IntV(k - 1)>>, c |-> rows[k].c]]

(***************************************************************************)
(* Names of the container's sections and of their files                    *)
(***************************************************************************)
KVariables == <<"v", "a", "r", "i", "a", "b", "l", "e", "s">>

KParameters == <<"p", "a", "r", "a", "m", "e", "t", "e", "r", "s">>

KMeasures == <<"m", "e", "a", "s", "u", "r", "e", "s">>

KLog == <<"l", "o", "g">>

KFixed == <<"f", "i", "x", "e", "d">>

KVaried == <<"v", "a", "r", "i", "e", "d">>

\* the literals 'variables_' and 'parameters_' of _load
VariablesPrefix == KVariables \o <<"_">>

ParametersPrefix == KParameters \o <<"_">>

CsvExt == <<"c", "s", "v">>

JsonExt == <<"j", "s", "o", "n">>

\* f'{key}.{ext}'
FileName(key, ext) == key \o <<".">> \o ext

\* file[:-(len(ext) + 1)] with ext = file.split(".")[-1]
StripExt(file) ==
    LET ext == LastSegment(file, ".")
        keep == Len(file) - (Len(ext) + 1)
    IN IF keep > 0 THEN SubSeq(file, 1, keep) ELSE <<>>

\* s.replace(sub, ''): every occurrence, left to right
RECURSIVE RemoveAll(_, _)
RemoveAll(str, sub) ==
    IF Len(str) < Len(sub) THEN str
    ELSE IF StartsWith(sub, str)
         THEN RemoveAll(SubSeq(str, Len(sub) + 1, Len(str)), sub)
         ELSE <<str[1]>> \o RemoveAll(Tail(str), sub)

(***************************************************************************)
(* Columnar text (CSV) and structured text (JSON)                          *)
(***************************************************************************)
\* the columns load_file promotes to index levels
i_cols == <<"sample_id", "run_id", "scenario", "env_key", "agent_id", "obj_id", "t">>

\* a cell as to_csv writes it
CsvText(v) == IF v.t = "int" THEN FmtInt(v.n)
              ELSE IF v.t = "str" THEN v.s
              ELSE <<>>

\* DataFrame.to_csv: a header of the index names (blank for an unnamed level)
\* and the columns, then one line per row
ToCsv(tab) ==
    [fmt |-> "csv",
     header |-> [k \in 1..Len(tab.index) |->
                    IF tab.index[k] = None THEN "" ELSE tab.index[k]] \o tab.columns,
     lines |-> [r \in 1..Len(tab.rows) |->
                    [k \in 1..(Len(tab.index) + Len(tab.columns)) |->
                        CsvText((tab.rows[r].i \o tab.rows[r].c)[k])]]]

UnnamedCols == <<"Unnamed: 0", "Unnamed: 1", "Unnamed: 2">>

\* pandas.read_csv: a blank header cell becomes "Unnamed: <position>"; a
\* column whose cells are all integers or blank is numeric, with NaN for the
\* blanks; any other column holds strings, with NaN for the blanks
ReadCsv(body) ==
    LET ncols == Len(body.header)
        numeric(k) == \A r \in 1..Len(body.lines) :
                         body.lines[r][k] = <<>> \/ IsIntStr(body.lines[r][k])
        cell(r, k) == LET txt == body.lines[r][k]
                      IN IF txt = <<>> THEN NaN
                         ELSE IF numeric(k) THEN IntV(ParseInt(txt))
                         ELSE StrV(txt)
    IN TableV(<<None>>,
              [k \in 1..ncols |->
                  IF body.header[k] = "" THEN UnnamedCols[k] ELSE body.header[k]],
              [r \in 1..Len(body.lines) |->
                  [i |-> <<IntV(r - 1)>>, c |-> [k \in 1..ncols |-> cell(r, k)]]])

\* DataFrame.set_index(keys), every key a column of the table
SetIndex(tab, keys) ==
    LET rest == SelectSeq(tab.columns, LAMBDA col : ~InSeq(col, keys))
        at(row, col) == row.c[PosOf(col, tab.columns)]
    IN TableV(keys, rest,
              [r \in 1..Len(tab.rows) |->
                  [i |-> [k \in 1..Len(keys) |-> at(tab.rows[r], keys[k])],
                   c |-> [k \in 1..Len(rest) |-> at(tab.rows[r], rest[k])]]])

\* a value as json.dump writes it and json.load reads it back: a tuple is
\* written as an array and comes back as a list
JsonValue(v) == IF v.t = "tuple" THEN ListV(v.items) ELSE v

\* json.dump of a dict
ToJson(d) ==
    [fmt |-> "json",
     entries |-> [k \in 1..Len(d.entries) |->
                    [k |-> d.entries[k].k, v |-> JsonValue(d.entries[k].v)]]]

\* the content of a file that cannot be read or decoded
Junk == [fmt |-> "junk"]

\* load_file: the object read from a file, None when the read fails or the
\* extension is not supported
load_file(file) ==
    LET ext == LastSegment(file.name, ".")
    IN IF ext = CsvExt
       THEN IF file.body.fmt = "csv"
            THEN LET obj == ReadCsv(file.body)
                     index == SelectSeq(i_cols, LAMBDA i : InSeq(i, obj.columns))
                 IN IF index # <<>> THEN SetIndex(obj, index) ELSE obj
            ELSE NoneV
       ELSE IF ext = JsonExt
            THEN IF file.body.fmt = "json" THEN DictV(file.body.entries) ELSE NoneV
            ELSE NoneV

(***************************************************************************)
(* Loading the files of an experiment directory                            *)
(***************************************************************************)
\* self[section][key] = obj, after self[section] = DataDict() if missing
SetNested(c, section, key, obj) ==
    LET c1 == IF HasKey(c, section) THEN c ELSE SetKey(c, section, DataDictV(<<>>))
        cur == GetKey(c1, section)
    IN IF cur.tag \in {"dd", "dict"}
       THEN [ok |-> TRUE,
             c |-> SetKey(c1, section,
                          [cur EXCEPT !.entries = SetKey(cur.entries, key, obj)])]
       ELSE [ok |-> FALSE, c |-> c1]

\* one pass of the loop `for file in listdir(path)` of _load
LoadedFile(c, file) ==
    IF Contains(VariablesPrefix, file.name)
    THEN SetNested(c, KVariables,
                   RemoveAll(StripExt(file.name), VariablesPrefix), load_file(file))
    ELSE IF Contains(ParametersPrefix, file.name)
         THEN SetNested(c, KParameters,
                        RemoveAll(StripExt(file.name), ParametersPrefix), load_file(file))
         ELSE [ok |-> TRUE, c |-> SetKey(c, StripExt(file.name), load_file(file))]

\* listdir gives the files in an arbitrary order
LoadFile(file) ==
    /\ lstat = "loading"
    /\ file \in pending
    /\ pending' = pending \ {file}
    /\ cont' = LoadedFile(cont, file).c
    /\ lstat' = IF LoadedFile(cont, file).ok THEN "loading" ELSE "TypeError"
    /\ UNCHANGED dirfiles
    /\ UNCHANGED <<fsVars, arVars>>

\* the directory is read to its end and _load returns the container
LoadDone == lstat = "loading" /\ pending = {}

\* small file contents
SmallCsv == ToCsv(TableV(<<"t">>, <<"x">>, <<[i |-> <<IntV(0)>>, c |-> <<IntV(5)>>]>>))

SmallJson == ToJson(DictV(<<[k |-> "a", v |-> IntV(1)]>>))

\* the files an experiment directory may hold: files save writes, the same
\* unreadable, a file of another type, and files whose names hold
\* 'variables_' or 'parameters_' after their start
FileUniverse ==
    { [name |-> FileName(VariablesPrefix \o <<"x">>, CsvExt), body |-> SmallCsv],
      [name |-> FileName(VariablesPrefix \o <<"y">>, CsvExt), body |-> Junk],
      [name |-> FileName(ParametersPrefix \o KFixed, JsonExt), body |-> SmallJson],
      [name |-> FileName(ParametersPrefix \o KVaried, CsvExt), body |-> Junk],
      [name |-> FileName(KMeasures, CsvExt), body |-> SmallCsv],
      [name |-> FileName(KLog, JsonExt), body |-> Junk],
      [name |-> FileName(<<"m", "y", "_">> \o VariablesPrefix \o <<"x">>, CsvExt),
       body |-> SmallCsv],
      [name |-> FileName(ParametersPrefix \o VariablesPrefix \o <<"y">>, JsonExt),
       body |-> SmallJson],
      [name |-> FileName(<<"n", "o", "t", "e", "s">>, <<"t", "x", "t">>),
       body |-> Junk] }

\* number of files in the directory
MaxFiles == 3

InitLoad ==
    /\ FsIdle
    /\ ArIdle
    /\ dirfiles \in {d \in SUBSET FileUniverse : Cardinality(d) <= MaxFiles}
    /\ pending = dirfiles
    /\ cont = <<>>
    /\ lstat = "loading"

NextLoad == \E file \in pending : LoadFile(file)

SpecLoad == InitLoad /\ [][NextLoad]_vars

(***************************************************************************)
(* Properties of load                                                      *)
(***************************************************************************)
\* the keys of a nested section of the container; none when it is missing
NestedKeys(c, section) ==
    IF HasKey(c, section) /\ GetKey(c, section).tag = "dd"
    THEN Keys(GetKey(c, section).entries)
    ELSE {}

\* the file name after a prefix, minus its extension
Remainder(name, prefix) == StripExt(SubSeq(name, Len(prefix) + 1, Len(name)))

\* where a file's object belongs by the prefix of its name
Place(name) ==
    IF StartsWith(VariablesPrefix, name)
    THEN [section |-> KVariables, key |-> Remainder(name, VariablesPrefix)]
    ELSE IF StartsWith(ParametersPrefix, name)
         THEN [section |-> KParameters, key |-> Remainder(name, ParametersPrefix)]
         ELSE [section |-> <<>>, key |-> StripExt(name)]

\* is the key of this place in the container
Present(c, place) ==
    IF place.section = <<>> THEN HasKey(c, place.key)
    ELSE place.key \in NestedKeys(c, place.section)

ValueAt(c, place) ==
    IF place.section = <<>> THEN GetKey(c, place.key)
    ELSE GetKey(GetKey(c, place.section).entries, place.key)

\* C9 as stated: exactly the files whose names start with 'variables_' form
\* the variables section, exactly those that start with 'parameters_' the
\* parameters section, each keyed by the rest of the name minus extension;
\* every other file is a top-level entry keyed by its name minus extension.
C9_Claim ==
    LoadDone =>
        /\ NestedKeys(cont, KVariables) =
               {Place(f.name).key :
                   f \in {g \in dirfiles : StartsWith(VariablesPrefix, g.name)}}
        /\ NestedKeys(cont, KParameters) =
               {Place(f.name).key :
                   f \in {g \in dirfiles : StartsWith(ParametersPrefix, g.name)}}
        /\ Keys(cont) \ {KVariables, KParameters} =
               {Place(f.name).key :
                   f \in {g \in dirfiles : Place(g.name).section = <<>>}}

\* a file load_file cannot turn into an object
Failed(f) == load_file(f) = NoneV

\* 'variables_' and 'parameters_' occur in the names only as prefixes
PrefixesOnly(files) ==
    \A f \in files :
        /\ Contains(VariablesPrefix, f.name) =>
               (StartsWith(VariablesPrefix, f.name)
                   /\ ~Contains(VariablesPrefix, Tail(f.name)))
        /\ Contains(ParametersPrefix, f.name) =>
               (StartsWith(ParametersPrefix, f.name)
                   /\ ~Contains(ParametersPrefix, Tail(f.name))
                   /\ ~Contains(VariablesPrefix, f.name))

\* C3 as stated: load of a directory with one failing file and N valid files
\* does not raise; the keys of the N valid files are populated and the key of
\* the failing file is absent from the container.
C3_Claim ==
    (pending = {} /\ lstat # "idle" /\ PrefixesOnly(dirfiles)
        /\ Cardinality({f \in dirfiles : Failed(f)}) = 1) =>
        /\ lstat = "loading"
        /\ \A f \in dirfiles :
              IF Failed(f)
              THEN ~Present(cont, Place(f.name))
              ELSE /\ Present(cont, Place(f.name))
                   /\ ValueAt(cont, Place(f.name)) # NoneV

\* what the code does with the failing file: its key is in the container and
\* holds None
C3_KeyHoldsNone ==
    (pending = {} /\ lstat # "idle" /\ PrefixesOnly(dirfiles)) =>
        /\ lstat = "loading"
        /\ \A f \in dirfiles :
              /\ Present(cont, Place(f.name))
              /\ Failed(f) <=> ValueAt(cont, Place(f.name)) = NoneV

(***************************************************************************)
(* The table operations arrange uses (pandas)                              *)
(***************************************************************************)
IsError(x) == x.tag = "error"

\* an optional argument: Nil is Python's None
Nil == [some |-> FALSE]

Some(v) == [some |-> TRUE, v |-> v]

\* the columns of the tables, each once, in order of first appearance
RECURSIVE ColumnUnion(_)
ColumnUnion(tabs) ==
    IF tabs = <<>> THEN <<>>
    ELSE LET before == ColumnUnion(SubSeq(tabs, 1, Len(tabs) - 1))
         IN before \o SelectSeq(tabs[Len(tabs)].columns,
                                LAMBDA col : ~InSeq(col, before))

\* the rows of a table laid out on the columns `cols`, NaN where it has none
RowsOn(tab, cols) ==
    [r \in 1..Len(tab.rows) |->
        [i |-> tab.rows[r].i,
         c |-> [k \in 1..Len(cols) |->
                   IF InSeq(cols[k], tab.columns)
                   THEN tab.rows[r].c[PosOf(cols[k], tab.columns)]
                   ELSE NaN]]]

RECURSIVE StackRows(_, _)
StackRows(tabs, cols) ==
    IF tabs = <<>> THEN <<>>
    ELSE StackRows(SubSeq(tabs, 1, Len(tabs) - 1), cols) \o RowsOn(tabs[Len(tabs)], cols)

\* pandas.concat(list of tables): rows stacked in the order of the list
ConcatRows(tabs) ==
    IF tabs = <<>> THEN ErrorV("ValueError: No objects to concatenate")
    ELSE TableV(tabs[1].index, ColumnUnion(tabs), StackRows(tabs, ColumnUnion(tabs)))

\* pandas.concat(dict of tables): as the list of its values, with the key as
\* a new outermost index level, here already named 'obj_type'
ConcatKeyed(entries) ==
    ConcatRows([e \in 1..Len(entries) |->
        TableV(<<"obj_type">> \o entries[e].v.index,
               entries[e].v.columns,
               [r \in 1..Len(entries[e].v.rows) |->
                   [i |-> <<StrV(entries[e].k)>> \o entries[e].v.rows[r].i,
                    c |-> entries[e].v.rows[r].c]])])

\* df[keys] for a list of column names
Select(tab, keys) ==
    IF \E k \in 1..Len(keys) : ~InSeq(keys[k], tab.columns)
    THEN ErrorV("KeyError: not in index")
    ELSE TableV(tab.index, keys, RowsOn(tab, keys))

\* df[key] = value for a scalar: a new last column, or the column replaced
AssignColumn(tab, key, value) ==
    IF InSeq(key, tab.columns)
    THEN [tab EXCEPT !.rows =
            [r \in 1..Len(tab.rows) |->
                [tab.rows[r] EXCEPT !.c[PosOf(key, tab.columns)] = value]]]
    ELSE TableV(tab.index, Append(tab.columns, key),
                [r \in 1..Len(tab.rows) |->
                    [tab.rows[r] EXCEPT !.c = Append(tab.rows[r].c, value)]])

\* df.reset_index(drop=True)
ResetIndexDrop(tab) == TableV(<<None>>, tab.columns, RangeRows(tab.rows))

LevelNames == <<"level_0", "level_1", "level_2", "level_3">>

\* the column an index level becomes under reset_index
LevelColumn(tab, k) ==
    IF tab.index[k] # None THEN tab.index[k]
    ELSE IF Len(tab.index) > 1 THEN LevelNames[k]
    ELSE IF InSeq("index", tab.columns) THEN "level_0" ELSE "index"

\* df.reset_index(): the index levels become the first columns
ResetIndex(tab) ==
    LET names == [k \in 1..Len(tab.index) |-> LevelColumn(tab, k)]
    IN IF \E k \in 1..Len(names) : InSeq(names[k], tab.columns)
       THEN ErrorV("ValueError: cannot insert, already exists")
       ELSE TableV(<<None>>, names \o tab.columns,
                   [r \in 1..Len(tab.rows) |->
                       [i |-> <<IntV(r - 1)>>, c |-> tab.rows[r].i \o tab.rows[r].c]])

\* df.set_index(keys)
SetIndexChecked(tab, keys) ==
    IF \E k \in 1..Len(keys) : ~InSeq(keys[k], tab.columns)
    THEN ErrorV("KeyError: not in columns")
    ELSE SetIndex(tab, keys)

\* dfp.reindex(dfv.index, level=level), dfp indexed by that one level: every
\* row of dfv's index gets the row of dfp with its value at the level
ReindexLevel(dfp, dfv, level) ==
    IF ~InSeq(level, dfv.index) THEN ErrorV("KeyError: Level not found")
    ELSE LET pos == PosOf(level, dfv.index)
             hits(r) == {q \in 1..Len(dfp.rows) : dfp.rows[q].i[1] = dfv.rows[r].i[pos]}
         IN TableV(dfv.index, dfp.columns,
                   [r \in 1..Len(dfv.rows) |->
                       [i |-> dfv.rows[r].i,
                        c |-> IF hits(r) = {}
                              THEN [k \in 1..Len(dfp.columns) |-> NaN]
                              ELSE dfp.rows[CHOOSE q \in hits(r) :
                                                \A p \in hits(r) : q <= p].c]])

IndexValues(tab) == [r \in 1..Len(tab.rows) |-> tab.rows[r].i]

\* pandas.concat([left, right], axis=1): the columns side by side, the rows
\* matched on their index values (all rows of both sides are kept)
ConcatCols(left, right) ==
    LET lv == IndexValues(left)
        rv == IndexValues(right)
        names == IF left.index = right.index THEN left.index
                 ELSE [k \in 1..Len(left.index) |-> None]
        blank(tab) == [k \in 1..Len(tab.columns) |-> NaN]
        rowOf(tab, iv) == tab.rows[CHOOSE r \in 1..Len(tab.rows) : tab.rows[r].i = iv]
        extra == SelectSeq(rv, LAMBDA iv : ~InSeq(iv, lv))
    IN IF lv = rv
       THEN TableV(names, left.columns \o right.columns,
                   [r \in 1..Len(lv) |->
                       [i |-> lv[r], c |-> left.rows[r].c \o right.rows[r].c]])
       ELSE IF HasDups(lv) \/ HasDups(rv) \/ Len(left.index) # Len(right.index)
            THEN ErrorV("InvalidIndexError")
            ELSE TableV(names, left.columns \o right.columns,
                        [r \in 1..(Len(lv) + Len(extra)) |->
                            IF r <= Len(lv)
                            THEN [i |-> lv[r],
                                  c |-> left.rows[r].c \o
                                        (IF InSeq(lv[r], rv)
                                         THEN rowOf(right, lv[r]).c
                                         ELSE blank(right))]
                            ELSE [i |-> extra[r - Len(lv)],
                                  c |-> blank(left) \o rowOf(right, extra[r - Len(lv)]).c]])

\* df.query("scenario in @scenarios"): 'scenario' is an index level or a column
QueryScenario(tab, scenarios) ==
    IF InSeq("scenario", tab.index)
    THEN [tab EXCEPT !.rows =
            SelectSeq(tab.rows,
                      LAMBDA row : InSeq(row.i[PosOf("scenario", tab.index)], scenarios))]
    ELSE IF InSeq("scenario", tab.columns)
         THEN [tab EXCEPT !.rows =
                 SelectSeq(tab.rows,
                           LAMBDA row : InSeq(row.c[PosOf("scenario", tab.columns)],
                                              scenarios))]
         ELSE ErrorV("UndefinedVariableError: scenario")

(***************************************************************************)
(* _combine_vars, _combine_pars and arrange                                *)
(*                                                                         *)
(* An argument that is a list of keys is given as Nil (None) or Some(list),*)
(* as it is after make_list.                                               *)
(***************************************************************************)
\* _combine_vars keeping an entry only when it has all the requested columns
CombineVarsAllColumns(c, obj_types, var_keys) ==
    LET df_dict == GetKey(c, KVariables)
    IN IF df_dict.tag = "table" THEN df_dict
       ELSE IF df_dict.tag = "dd" /\ Len(df_dict.entries) = 1
            THEN df_dict.entries[1].v
            ELSE LET byVar == IF var_keys.some
                              THEN SelectSeq(df_dict.entries,
                                       LAMBDA e : \A k \in 1..Len(var_keys.v) :
                                                     InSeq(var_keys.v[k], e.v.columns))
                              ELSE df_dict.entries
                     byType == IF obj_types.some
                               THEN SelectSeq(byVar, LAMBDA e : InSeq(e.k, obj_types.v))
                               ELSE byVar
                     df == ConcatKeyed(byType)
                 IN IF IsError(df) THEN df
                    ELSE IF var_keys.some /\ var_keys.v # <<>>
                         THEN Select(df, var_keys.v)
                         ELSE df

\* _combine_vars(obj_types, var_keys)
CombineVars(c, obj_types, var_keys) ==
    LET df_dict == GetKey(c, KVariables)
    IN IF df_dict.tag = "table" THEN df_dict
       ELSE IF df_dict.tag = "dd" /\ Len(df_dict.entries) = 1
            THEN df_dict.entries[1].v
            ELSE LET byVar == IF var_keys.some
                              THEN SelectSeq(df_dict.entries,
                                       LAMBDA e : \E k \in 1..Len(var_keys.v) :
                                                     InSeq(var_keys.v[k], e.v.columns))
                              ELSE df_dict.entries
                     byType == IF obj_types.some
                               THEN SelectSeq(byVar, LAMBDA e : InSeq(e.k, obj_types.v))
                               ELSE byVar
                     df == ConcatKeyed(byType)
                 IN IF IsError(df) THEN df
                    ELSE IF var_keys.some /\ var_keys.v # <<>>
                         THEN Select(df, var_keys.v)
                         ELSE df

\* for k, v in fixed.items(): dfp0[k] = v
RECURSIVE Broadcast(_, _)
Broadcast(tab, fixed) ==
    IF fixed = <<>> THEN tab
    ELSE AssignColumn(Broadcast(tab, SubSeq(fixed, 1, Len(fixed) - 1)),
                      fixed[Len(fixed)].k, fixed[Len(fixed)].v)

\* self.log['iterations']
Iterations(c) == GetKey(GetKey(c, KLog).entries, "iterations").n

\* the replication without reset_index: every copy keeps its own row labels
ReplicateKeepIndex(dfp0, iterations) ==
    LET dfp == ConcatRows([k \in 1..iterations |-> dfp0])
    IN IF IsError(dfp) THEN dfp
       ELSE [dfp EXCEPT !.index = <<"run_id">>]

\* pd.concat([dfp0] * iterations), reset_index(drop=True), index named run_id
Replicate(dfp0, iterations) ==
    LET dfp == ConcatRows([k \in 1..iterations |-> dfp0])
    IN IF IsError(dfp) THEN dfp
       ELSE [ResetIndexDrop(dfp) EXCEPT !.index = <<"run_id">>]

\* _combine_pars: the table it returns and the container it leaves; with
\* nested parameters dfp0 is the container's own `varied` table, and the
\* columns assigned to dfp0 are assigned to it
CombinePars(c) ==
    LET p == GetKey(c, KParameters)
    IN IF p.tag = "dd"
       THEN LET dfp0 == Broadcast(GetKey(p.entries, KVaried),
                                  GetKey(p.entries, KFixed).entries)
            IN [out |-> Replicate(dfp0, Iterations(c)),
                c |-> SetKey(c, KParameters,
                             [p EXCEPT !.entries = SetKey(p.entries, KVaried, dfp0)])]
       ELSE IF p.tag = "dict"
            THEN [out |-> Replicate(
                              TableV(<<None>>,
                                     [k \in 1..Len(p.entries) |-> p.entries[k].k],
                                     <<[i |-> <<IntV(0)>>,
                                        c |-> [k \in 1..Len(p.entries) |-> p.entries[k].v]]>>),
                              Iterations(c)),
                  c |-> c]
            ELSE IF p.tag = "table"
                 THEN [out |-> Replicate(p, Iterations(c)), c |-> c]
                 ELSE [out |-> ErrorV("AgentpyError: Parameters must be of type dict, DataDict, or pandas.DataFrame"),
                       c |-> c]

\* the keys of a container, in its order
KeySeq(c) == [k \in 1..Len(c) |-> c[k].k]

supported_keys == <<KVariables, KMeasures, KParameters>>

\* the key check testing for an unsupported key before a missing one
KeyCheckSupportFirst(c, data_keys) ==
    LET bad == {k \in 1..Len(data_keys) :
                   ~HasKey(c, data_keys[k]) \/ ~InSeq(data_keys[k], supported_keys)}
        first == CHOOSE k \in bad : \A j \in bad : k <= j
    IN IF bad = {} THEN NoneV
       ELSE IF ~InSeq(data_keys[first], supported_keys)
            THEN [tag |-> "error", what |-> "KeyError: DataDict.arrange doesn't support",
                  key |-> data_keys[first], lists |-> supported_keys]
            ELSE [tag |-> "error", what |-> "KeyError: DataDict has no key",
                  key |-> data_keys[first], lists |-> <<>>]

\* the error of the first requested key that is missing or not supported
KeyCheck(c, data_keys) ==
    LET bad == {k \in 1..Len(data_keys) :
                   ~HasKey(c, data_keys[k]) \/ ~InSeq(data_keys[k], supported_keys)}
        first == CHOOSE k \in bad : \A j \in bad : k <= j
    IN IF bad = {} THEN NoneV
       ELSE IF ~HasKey(c, data_keys[first])
            THEN [tag |-> "error", what |-> "KeyError: DataDict has no key",
                  key |-> data_keys[first], lists |-> <<>>]
            ELSE [tag |-> "error", what |-> "KeyError: DataDict.arrange doesn't support",
                  key |-> data_keys[first], lists |-> supported_keys]

\* the part of arrange that processes 'measures'
WithMeasures(c, a, dfv) ==
    LET dfm0 == GetKey(c, KMeasures)
        dfm == IF a.measure_keys.some /\ a.measure_keys.v # <<>>
               THEN Select(dfm0, a.measure_keys.v)
               ELSE dfm0
    IN IF IsError(dfm) THEN dfm
       ELSE IF dfv = NoneV THEN dfm
       ELSE LET m == ResetIndex(dfm)
                v == ResetIndex(dfv)
            IN IF IsError(m) THEN m
               ELSE IF IsError(v) THEN v
               ELSE SetIndexChecked(ConcatRows(<<m, v>>), dfv.index)

\* the part of arrange that processes 'parameters'
WithParameters(c, a, dfv) ==
    LET cp == CombinePars(c)
        dfp == IF IsError(cp.out) THEN cp.out
               ELSE IF a.param_keys.some /\ a.param_keys.v # <<>>
                    THEN Select(cp.out, a.param_keys.v)
                    ELSE cp.out
    IN [c |-> cp.c,
        out |-> IF IsError(dfp) THEN dfp
                ELSE IF dfv = NoneV
                     THEN ErrorV("AttributeError: 'NoneType' object has no attribute 'index'")
                     ELSE IF Len(dfv.index) > 1
                          THEN LET re == ReindexLevel(dfp, dfv, "run_id")
                               IN IF IsError(re) THEN re ELSE ConcatCols(dfv, re)
                          ELSE ConcatCols(dfv, dfp)]

\* the end of arrange: the scenario filter and the index reset
Finish(a, dfv) ==
    LET sel == IF a.scenarios.some /\ a.scenarios.v # <<>>
               THEN IF dfv = NoneV
                    THEN ErrorV("AttributeError: 'NoneType' object has no attribute 'query'")
                    ELSE QueryScenario(dfv, a.scenarios.v)
               ELSE dfv
    IN IF IsError(sel) THEN sel
       ELSE IF a.index THEN sel
       ELSE IF sel = NoneV
            THEN ErrorV("AttributeError: 'NoneType' object has no attribute 'reset_index'")
            ELSE ResetIndex(sel)

\* DataDict.arrange: what it returns (a table, None or the error raised) and
\* the container it leaves
Arrange(c, a) ==
    LET data_keys == IF a.data_keys.some THEN a.data_keys.v
                     ELSE SelectSeq(KeySeq(c), LAMBDA k : InSeq(k, supported_keys))
        check == IF a.data_keys.some THEN KeyCheck(c, data_keys) ELSE NoneV
        dfv1 == IF InSeq(KVariables, data_keys)
                THEN CombineVars(c, a.obj_types, a.var_keys)
                ELSE NoneV
        dfv2 == IF IsError(dfv1) \/ ~InSeq(KMeasures, data_keys) THEN dfv1
                ELSE WithMeasures(c, a, dfv1)
        step3 == IF IsError(dfv2) \/ ~InSeq(KParameters, data_keys)
                 THEN [c |-> c, out |-> dfv2]
                 ELSE WithParameters(c, a, dfv2)
    IN IF IsError(check) THEN [c |-> c, out |-> check]
       ELSE [c |-> step3.c,
             out |-> IF IsError(step3.out) THEN step3.out ELSE Finish(a, step3.out)]

(***************************************************************************)
(* Containers and calls                                                    *)
(***************************************************************************)
\* rows of the `varied` parameter table
MaxVaried == 3
\* log['iterations']
MaxIter == 2

TypeA == <<"A">>

TypeB == <<"B">>

TypeC == <<"C">>

Row(i, c) == [i |-> i, c |-> c]

\* recorded variables of three object types, indexed by run and time step
TabA == TableV(<<"run_id", "t">>, <<"x">>,
               << Row(<<IntV(0), IntV(0)>>, <<IntV(1)>>),
                  Row(<<IntV(1), IntV(0)>>, <<IntV(2)>>) >>)

TabB == TableV(<<"run_id", "t">>, <<"y">>,
               << Row(<<IntV(0), IntV(0)>>, <<IntV(3)>>) >>)

TabC == TableV(<<"run_id", "t">>, <<"x", "y">>,
               << Row(<<IntV(0), IntV(0)>>, <<IntV(4), IntV(5)>>),
                  Row(<<IntV(0), IntV(1)>>, <<IntV(6), IntV(7)>>),
                  Row(<<IntV(1), IntV(0)>>, <<IntV(8), IntV(9)>>) >>)

Entry(k, v) == [k |-> k, v |-> v]

VariablesChoices ==
    { TabA,
      DataDictV(<<Entry(TypeA, TabA), Entry(TypeB, TabB)>>),
      DataDictV(<<Entry(TypeA, TabA), Entry(TypeB, TabB), Entry(TypeC, TabC)>>) }

MeasuresTable == TableV(<<"run_id">>, <<"m">>,
                        << Row(<<IntV(0)>>, <<IntV(7)>>), Row(<<IntV(1)>>, <<IntV(8)>>) >>)

\* a sample of n parameter combinations
VariedTable(n) ==
    TableV(<<None>>, <<"b">>, [k \in 1..n |-> Row(<<IntV(k - 1)>>, <<IntV(10 + k)>>)])

FixedChoices ==
    { DictV(<<Entry("a", IntV(1))>>),
      DictV(<<Entry("a", IntV(1)), Entry("c", StrV(<<"u">>))>>),
      DictV(<<Entry("b", IntV(0)), Entry("a", IntV(1))>>) }

ParametersChoices ==
    { DictV(<<Entry("a", IntV(1)), Entry("b", IntV(2))>>),
      TableV(<<None>>, <<"a">>, << Row(<<IntV(0)>>, <<IntV(1)>>),
                                   Row(<<IntV(1)>>, <<IntV(2)>>) >>) }
    \cup { DataDictV(<<Entry(KFixed, f), Entry(KVaried, VariedTable(n))>>) :
              f \in FixedChoices, n \in 0..MaxVaried }

LogDict(k) == DictV(<<Entry("name", StrV(LogName)), Entry("iterations", IntV(k))>>)

\* a section the container may lack
Opt(key, choice) == IF choice.some THEN <<Entry(key, choice.v)>> ELSE <<>>

Optional(S) == {Nil} \cup {Some(x) : x \in S}

Containers ==
    { <<Entry(KLog, LogDict(k))>> \o Opt(KParameters, p) \o Opt(KVariables, v)
          \o Opt(KMeasures, m) :
        k \in 1..MaxIter, p \in Optional(ParametersChoices),
        v \in Optional(VariablesChoices), m \in Optional({MeasuresTable}) }

KInfo == <<"i", "n", "f", "o">>

DataKeyChoices ==
    Optional({ <<KVariables>>, <<KMeasures>>, <<KParameters>>,
               <<KVariables, KParameters>>, <<KVariables, KMeasures, KParameters>>,
               <<KLog>>, <<KInfo>>, <<KMeasures, KLog>>, <<KLog, KMeasures>> })

VarKeyChoices == Optional({ <<>>, <<"x">>, <<"y">>, <<"x", "y">>, <<"z">>, <<"x", "z">> })

ObjTypeChoices == Optional({ <<TypeA>>, <<TypeB>>, <<TypeA, TypeB>>, <<TypeC, TypeA>>,
                             <<<<"D">>>> })

NoArgs == [data_keys |-> Nil, var_keys |-> Nil, obj_types |-> Nil,
           measure_keys |-> Nil, param_keys |-> Nil, scenarios |-> Nil,
           index |-> FALSE]

\* the filters of a call: none, or one on every section
FilterChoices ==
    { [var_keys |-> Nil, obj_types |-> Nil, measure_keys |-> Nil],
      [var_keys |-> Some(<<"x">>), obj_types |-> Some(<<TypeA>>),
       measure_keys |-> Some(<<"m">>)] }

ArrangeArgs ==
    { [data_keys |-> d, var_keys |-> f.var_keys, obj_types |-> f.obj_types,
       measure_keys |-> f.measure_keys, param_keys |-> p, scenarios |-> s,
       index |-> i] :
        d \in DataKeyChoices, f \in FilterChoices, p \in Optional({<<"a">>}),
        s \in Optional({<<IntV(0)>>}), i \in BOOLEAN }

\* data.arrange(...)
ArrangeCall(a) ==
    /\ aout.op = "none"
    /\ aout' = [op |-> "arrange", a |-> a, out |-> Arrange(dd, a).out]
    /\ dd' = Arrange(dd, a).c
    /\ UNCHANGED dd0
    /\ UNCHANGED <<fsVars, ldVars>>

\* data._combine_vars(obj_types, var_keys)
CombineVarsCall(obj_types, var_keys) ==
    /\ aout.op = "none"
    /\ HasKey(dd, KVariables)
    /\ aout' = [op |-> "combine_vars",
                a |-> [NoArgs EXCEPT !.obj_types = obj_types, !.var_keys = var_keys],
                out |-> CombineVars(dd, obj_types, var_keys)]
    /\ UNCHANGED <<dd0, dd>>
    /\ UNCHANGED <<fsVars, ldVars>>

\* data._combine_pars()
CombineParsCall ==
    /\ aout.op = "none"
    /\ HasKey(dd, KParameters)
    /\ aout' = [op |-> "combine_pars", a |-> NoArgs, out |-> CombinePars(dd).out]
    /\ dd' = CombinePars(dd).c
    /\ UNCHANGED dd0
    /\ UNCHANGED <<fsVars, ldVars>>

InitArrange ==
    /\ FsIdle
    /\ LdIdle
    /\ dd0 \in Containers
    /\ dd = dd0
    /\ aout = [op |-> "none"]

NextArrange ==
    \/ \E a \in ArrangeArgs : ArrangeCall(a)
    \/ \E o \in ObjTypeChoices, v \in VarKeyChoices : CombineVarsCall(o, v)
    \/ CombineParsCall

SpecArrange == InitArrange /\ [][NextArrange]_vars

(***************************************************************************)
(* What save writes                                                        *)
(***************************************************************************)
\* the files DataDict.save writes into the new directory
SaveFiles(c) ==
    LET top(e) ==
            IF e.v.tag = "table" THEN {[name |-> FileName(e.k, CsvExt), body |-> ToCsv(e.v)]}
            ELSE IF e.v.tag = "dict"
                 THEN {[name |-> FileName(e.k, JsonExt), body |-> ToJson(e.v)]}
                 ELSE {}
        inner(key, e) ==
            IF e.v.tag = "table"
            THEN {[name |-> FileName(key \o <<"_">> \o e.k, CsvExt), body |-> ToCsv(e.v)]}
            ELSE IF e.v.tag = "dict"
                 THEN {[name |-> FileName(key \o <<"_">> \o e.k, JsonExt),
                        body |-> ToJson(e.v)]}
                 ELSE {}
    IN UNION { IF c[k].v.tag = "dd"
               THEN UNION {inner(c[k].k, c[k].v.entries[j]) : j \in 1..Len(c[k].v.entries)}
               ELSE top(c[k]) : k \in 1..Len(c) }

(***************************************************************************)
(* Properties of arrange                                                   *)
(***************************************************************************)
Arranged == aout.op = "arrange"

\* the container's parameters hold a parameter named key
HasParameter(c, key) ==
    /\ HasKey(c, KParameters)
    /\ LET p == GetKey(c, KParameters)
       IN IF p.tag = "dict" THEN HasKey(p.entries, key)
          ELSE IF p.tag = "table" THEN InSeq(key, p.columns)
          ELSE HasKey(GetKey(p.entries, KFixed).entries, key)
                  \/ InSeq(key, GetKey(p.entries, KVaried).columns)

\* C4 as stated: arrange(data_keys='parameters', param_keys=['a']) on a
\* container whose parameters hold 'a' returns a table with the column 'a'
\* and the index column only.
C4_Claim ==
    (Arranged /\ aout.a.data_keys = Some(<<KParameters>>)
        /\ aout.a.param_keys = Some(<<"a">>) /\ ~aout.a.scenarios.some
        /\ HasParameter(dd0, "a")) =>
        /\ aout.out.tag = "table"
        /\ IF aout.a.index
           THEN aout.out.index = <<"run_id">> /\ aout.out.columns = <<"a">>
           ELSE aout.out.columns = <<"run_id", "a">>

\* the keys of a request that are not supported
Unsupported(data_keys) ==
    {data_keys[k] : k \in {j \in 1..Len(data_keys) : ~InSeq(data_keys[j], supported_keys)}}

\* C5 as stated: an explicit data_keys with a key outside the supported set
\* raises an error that names that key and lists the supported set, whether
\* or not the key is in the container and whatever else is requested.
C5_Original ==
    (Arranged /\ aout.a.data_keys.some /\ Unsupported(aout.a.data_keys.v) # {}) =>
        /\ IsError(aout.out)
        /\ aout.out.key \in Unsupported(aout.a.data_keys.v)
        /\ aout.out.lists = supported_keys

\* the first requested key that is not in the container or not supported
FirstRefused(c, data_keys) ==
    data_keys[CHOOSE k \in 1..Len(data_keys) :
        /\ ~HasKey(c, data_keys[k]) \/ data_keys[k] \in Unsupported(data_keys)
        /\ \A j \in 1..(k - 1) :
              HasKey(c, data_keys[j]) /\ data_keys[j] \notin Unsupported(data_keys)]

\* C5 amended: an explicit data_keys with a key outside the supported set
\* raises a KeyError for the first requested key that is missing from the
\* container or not supported; the error names that key, and lists the
\* supported set exactly when that key is in the container; the container
\* is left as it was.
C5_Amended ==
    (Arranged /\ aout.a.data_keys.some /\ Unsupported(aout.a.data_keys.v) # {}) =>
        /\ IsError(aout.out)
        /\ aout.out.key = FirstRefused(dd0, aout.a.data_keys.v)
        /\ IF HasKey(dd0, aout.out.key)
           THEN aout.out.lists = <<KVariables, KMeasures, KParameters>>
           ELSE aout.out.lists = <<>>
        /\ dd = dd0

\* a request for an unsupported key the container lacks, and one for a
\* supported key it lacks ahead of an unsupported key it has
C5_Witness ==
    /\ Arranged
    /\ aout.a.data_keys = Some(<<KMeasures, KLog>>)
    /\ ~HasKey(dd0, KMeasures)
    /\ IsError(aout.out)
    /\ aout.out.key = KMeasures

\* C10 as stated: arrange leaves every section of the container as it was,
\* so that save writes the same files after it as before it.
C10_Claim ==
    (Arranged /\ aout.out.tag = "table") =>
        (dd = dd0 /\ SaveFiles(dd) = SaveFiles(dd0))

(***************************************************************************)
(* Properties of _combine_pars and _combine_vars                           *)
(***************************************************************************)
NestedParameters(c) ==
    HasKey(c, KParameters) /\ GetKey(c, KParameters).tag = "dd"

FixedOf(c) == GetKey(GetKey(c, KParameters).entries, KFixed).entries

VariedOf(c) == GetKey(GetKey(c, KParameters).entries, KVaried)

\* the value of a column in a row
Cell(tab, r, col) == tab.rows[r].c[PosOf(col, tab.columns)]

ManyTypes(c) ==
    /\ HasKey(c, KVariables)
    /\ GetKey(c, KVariables).tag = "dd"
    /\ Len(GetKey(c, KVariables).entries) >= 2

TypesOf(c) == GetKey(c, KVariables).entries

\* the entries that pass both filters
Passes(e, obj_types, var_keys) ==
    /\ obj_types.some => e.k \in SeqToSet(obj_types.v)
    /\ var_keys.some => SeqToSet(var_keys.v) \cap SeqToSet(e.v.columns) # {}

Passing(c, obj_types, var_keys) ==
    {j \in 1..Len(TypesOf(c)) : Passes(TypesOf(c)[j], obj_types, var_keys)}

RECURSIVE SumRows(_, _)
SumRows(c, js) ==
    IF js = {} THEN 0
    ELSE LET j == CHOOSE x \in js : TRUE
         IN Len(TypesOf(c)[j].v.rows) + SumRows(c, js \ {j})

\* the result is the stack of the passing entries
StackOfPassing(c, a, out) ==
    /\ out.tag = "table"
    /\ out.index[1] = "obj_type"
    /\ {out.rows[r].i[1] : r \in 1..Len(out.rows)}
           = {StrV(TypesOf(c)[j].k) : j \in Passing(c, a.obj_types, a.var_keys)}
    /\ Len(out.rows) = SumRows(c, Passing(c, a.obj_types, a.var_keys))

\* C8 as stated: with two or more object types, the combined table's obj_type
\* level takes exactly the keys of the entries that pass both filters, and
\* its row count is the sum of their row counts.
C8_Original ==
    (aout.op = "combine_vars" /\ ManyTypes(dd0)) => StackOfPassing(dd0, aout.a, aout.out)

\* every requested column is a column of some passing entry
ColumnsFound(c, obj_types, var_keys) ==
    var_keys.some =>
        \A col \in SeqToSet(var_keys.v) :
            \E j \in Passing(c, obj_types, var_keys) : InSeq(col, TypesOf(c)[j].v.columns)

\* C8 amended: the same, provided at least one entry passes both filters and
\* every requested column is a column of some passing entry; otherwise
\* _combine_vars raises.
C8_Amended ==
    (aout.op = "combine_vars" /\ ManyTypes(dd0)) =>
        IF /\ Passing(dd0, aout.a.obj_types, aout.a.var_keys) # {}
           /\ ColumnsFound(dd0, aout.a.obj_types, aout.a.var_keys)
        THEN StackOfPassing(dd0, aout.a, aout.out)
        ELSE IsError(aout.out)

\* three object types filtered down to two by both filters
C8_Witness ==
    /\ aout.op = "combine_vars"
    /\ Len(TypesOf(dd0)) = 3
    /\ aout.a.var_keys = Some(<<"x">>)
    /\ aout.a.obj_types = Some(<<TypeC, TypeA>>)
    /\ aout.out.tag = "table"
    /\ Len(aout.out.rows) = 5

(***************************************************************************)
(* save, load and arrange of the output of one run                         *)
(***************************************************************************)
\* the variables of a single run (run_id 0), as a table, with its index
\* levels in either order, or under its one object type
RunVariablesChoices ==
    { TableV(<<"run_id", "t">>, <<"x">>,
             << Row(<<IntV(0), IntV(0)>>, <<IntV(1)>>),
                Row(<<IntV(0), IntV(1)>>, <<IntV(2)>>) >>),
      TableV(<<"t", "run_id">>, <<"x">>,
             << Row(<<IntV(0), IntV(0)>>, <<IntV(1)>>),
                Row(<<IntV(1), IntV(0)>>, <<IntV(2)>>) >>),
      DataDictV(<<Entry(TypeA,
                        TableV(<<"run_id", "t">>, <<"x", "y">>,
                               << Row(<<IntV(0), IntV(0)>>, <<IntV(1), IntV(3)>>) >>))>>) }

\* the measures of a single run: indexed by run_id, or with the unnamed
\* default index of a table built from the recorded measures
RunMeasuresChoices ==
    { TableV(<<"run_id">>, <<"m">>, << Row(<<IntV(0)>>, <<IntV(7)>>) >>),
      TableV(<<None>>, <<"m">>, << Row(<<IntV(0)>>, <<IntV(7)>>) >>),
      TableV(<<None>>, <<"m", "k">>, << Row(<<IntV(0)>>, <<IntV(7), IntV(8)>>) >>) }

RunParametersChoices ==
    { DictV(<<Entry("a", IntV(1))>>),
      DictV(<<Entry("a", IntV(1)), Entry("b", IntV(2))>>) }

RunContainers ==
    { <<Entry(KLog, LogDict(1)), Entry(KParameters, p), Entry(KVariables, v),
        Entry(KMeasures, m)>> :
        p \in RunParametersChoices, v \in RunVariablesChoices,
        m \in RunMeasuresChoices }

\* data.save(): the files of the new experiment directory
SaveRun ==
    /\ lstat = "idle"
    /\ dirfiles' = SaveFiles(dd)
    /\ pending' = SaveFiles(dd)
    /\ lstat' = "loading"
    /\ UNCHANGED cont
    /\ UNCHANGED <<fsVars, arVars>>

\* arrange() on the container that was saved and on the one that was loaded
ArrangeBoth ==
    /\ LoadDone
    /\ aout.op = "none"
    /\ aout' = [op |-> "roundtrip",
                saved |-> Arrange(dd, NoArgs).out,
                loaded |-> Arrange(cont, NoArgs).out]
    /\ dd' = Arrange(dd, NoArgs).c
    /\ cont' = Arrange(cont, NoArgs).c
    /\ UNCHANGED <<dd0, dirfiles, pending, lstat>>
    /\ UNCHANGED fsVars

InitRoundTrip ==
    /\ FsIdle
    /\ LdIdle
    /\ dd0 \in RunContainers
    /\ dd = dd0
    /\ aout = [op |-> "none"]

NextRoundTrip ==
    \/ SaveRun
    \/ \E file \in pending : LoadFile(file)
    \/ ArrangeBoth

SpecRoundTrip == InitRoundTrip /\ [][NextRoundTrip]_vars

\* the rows of a table, each as a mapping from column to value
RowMaps(tab) ==
    [r \in 1..Len(tab.rows) |-> [col \in SeqToSet(tab.columns) |-> Cell(tab, r, col)]]

\* C2 as stated: for a container with a log of one iteration, a flat
\* parameters mapping, a single variables table and a measures table,
\* arrange() on load(save(x)) returns the columns and values arrange() on x
\* returns.
C2_Claim ==
    (aout.op = "roundtrip" /\ aout.saved.tag = "table") =>
        /\ aout.loaded.tag = "table"
        /\ SeqToSet(aout.loaded.columns) = SeqToSet(aout.saved.columns)
        /\ RowMaps(aout.loaded) = RowMaps(aout.saved)

\* the same holds when the index levels of every table bear recognised names
C2_NamedIndexes ==
    (aout.op = "roundtrip" /\ aout.saved.tag = "table"
        /\ GetKey(dd0, KMeasures).index # <<None>>) =>
        /\ aout.loaded.tag = "table"
        /\ SeqToSet(aout.loaded.columns) = SeqToSet(aout.saved.columns)
        /\ RowMaps(aout.loaded) = RowMaps(aout.saved)

====
